---- MODULE Spec2Model ----
(***************************************************************************)
(* Session store of the onboarding portal (src/contexts/AuthContext.tsx):  *)
(* the AuthProvider's state (user, token, loading), the browser's          *)
(* localStorage keys 'authToken' and 'userData', the mount effect that     *)
(* restores a persisted session, login (an async function: one step up to  *)
(* the await of authAPI.login, one step from the settled promise to the    *)
(* return) and logout.  The provider runs in the browser: the branches     *)
(* guarded by typeof window !== 'undefined' are the ones taken.            *)
(* On top of the store: the Home view's redirect, the data loads of the    *)
(* admin dashboard and the admin task page, and the task page's            *)
(* create-task modal (selection of employees, handleCreateTask).           *)
(***************************************************************************)
EXTENDS Integers, Sequences, FiniteSets, TLC

VARIABLES user, token, loading, localStorage, initialized, calls, navCount, last,
          restarts, goodLogin, staleCalls,
          homeMounted, homePush, homeVisits,
          adminDashboard, adminTasksPage, loadsIssued, lastLoad,
          taskForm, lastForm

\* history of the store across page loads
histVars == <<restarts, goodLogin, staleCalls>>

\* the Home view (app/page.tsx)
homeVars == <<homeMounted, homePush, homeVisits>>

\* the create-task modal of the admin task page
formVars == <<taskForm, lastForm>>

\* the admin dashboard and the admin task page
loadVars == <<adminDashboard, adminTasksPage, loadsIssued, lastLoad, taskForm, lastForm>>

\* the state of the views that the store's operations do not write
otherVars == <<homeVisits, adminDashboard, adminTasksPage, loadsIssued, lastLoad,
               taskForm, lastForm>>

\* the store's own state
storeVars == <<user, token, loading, localStorage, initialized, calls, navCount, last>>

vars == <<user, token, loading, localStorage, initialized, calls, navCount, last,
          restarts, goodLogin, staleCalls, homeMounted, homePush, homeVisits,
          adminDashboard, adminTasksPage, loadsIssued, lastLoad, taskForm, lastForm>>

(* ------------------------------ bounds --------------------------------- *)

\* number of login calls a behaviour may start
MaxLogins == 2

\* number of logout calls a behaviour may make
MaxLogouts == 2

\* number of page reloads a behaviour may make
MaxRestarts == 1

\* number of times a behaviour may open the Home view
MaxVisits == 1

\* number of login calls a behaviour with the Home view may start
HomeLogins == 1

\* number of data loads a behaviour may start, over both admin views
MaxLoads == 2

(* ------------------------------ values --------------------------------- *)

\* JavaScript null and undefined, for string-valued and object-valued places
NullS == "<null>"
Undefined == "<undefined>"
Null == [t |-> "null"]
NoData == [t |-> "undefined"]

\* `x && ...` / `x || ...` on a string-or-null-or-undefined value
Truthy(s) == s # NullS /\ s # Undefined /\ s # ""

\* the User interface: the keys of a user object, in the order login writes them
UserKeys == <<"id", "name", "email", "phone", "role", "startDate">>

\* bearer tokens the API may hand out
Tokens == {"T1", "T2"}

\* user records as the API returns them (result.data.user); a record may carry
\* _id, id or both, and phone and startDate are optional
ApiUsers ==
  { [t |-> "object", _id |-> "m1", id |-> Undefined, name |-> "A", email |-> "a@x.com",
     phone |-> Undefined, role |-> "user", startDate |-> Undefined],
    [t |-> "object", _id |-> Undefined, id |-> "1", name |-> "B", email |-> "b@x.com",
     phone |-> "555", role |-> "admin", startDate |-> "2024-01-01"],
    [t |-> "object", _id |-> "m3", id |-> "3", name |-> "C", email |-> "c@x.com",
     phone |-> Undefined, role |-> "user", startDate |-> "2024-02-02"] }

\* what authAPI.login(email, password) settles to: a rejected promise, or a
\* resolved {success, data?} whose data, when present, is {accessToken, user?}
Rejected == [kind |-> "reject", success |-> FALSE, data |-> NoData]
FailureResponse == [kind |-> "resolve", success |-> FALSE, data |-> NoData]
SuccessNoData == [kind |-> "resolve", success |-> TRUE, data |-> NoData]
Success(a, u) ==
  [kind |-> "resolve", success |-> TRUE,
   data |-> [t |-> "object", accessToken |-> a, user |-> u]]
SuccessResponses ==
  { Success("T1", u) : u \in ApiUsers \cup {NoData} } \cup
  { Success("T2", u) : u \in {v \in ApiUsers : v.id = Undefined} }
ApiOutcomes == {Rejected, FailureResponse, SuccessNoData} \cup SuccessResponses

\* which localStorage.setItem of a login throws (quota exceeded), if any
StorageFaults == {"none", "authToken", "userData"}

(* ------------------------- JSON.stringify / JSON.parse ------------------ *)

\* a stored string: the empty string, the text null, a text that is not JSON,
\* or an object text, a sequence of "key":"value" members
Text(syntax, members) == [t |-> "text", syntax |-> syntax, members |-> members]
Absent == [t |-> "absent"]
EmptyText == Text("empty", <<>>)
NullText == Text("null", <<>>)
MalformedText == Text("malformed", <<>>)

RECURSIVE Members(_, _)
\* the members JSON.stringify writes for object o: its keys in order, a key
\* whose value is undefined left out
Members(o, keys) ==
  IF keys = <<>> THEN <<>>
  ELSE IF o[Head(keys)] = Undefined THEN Members(o, Tail(keys))
       ELSE <<<<Head(keys), o[Head(keys)]>>>> \o Members(o, Tail(keys))

JSONstringify(o) == Text("object", Members(o, UserKeys))

\* property k of the object an object text parses to; undefined when absent
Member(members, k) ==
  IF \E i \in 1..Len(members) : members[i][1] = k
  THEN members[CHOOSE i \in 1..Len(members) : members[i][1] = k][2]
  ELSE Undefined

\* JSON.parse: throws a SyntaxError on the empty string and on a malformed
\* text, yields null for the text null and an object for an object text
JSONparse(text) ==
  IF text.syntax \in {"empty", "malformed"} THEN [ok |-> FALSE, value |-> Null]
  ELSE IF text.syntax = "null" THEN [ok |-> TRUE, value |-> Null]
  ELSE [ok |-> TRUE,
        value |-> [t |-> "object",
                   id |-> Member(text.members, "id"),
                   name |-> Member(text.members, "name"),
                   email |-> Member(text.members, "email"),
                   phone |-> Member(text.members, "phone"),
                   role |-> Member(text.members, "role"),
                   startDate |-> Member(text.members, "startDate")]]

(* ------------------------------ storage -------------------------------- *)

\* localStorage.getItem gives null for an absent key; a stored string is truthy
\* unless it is empty
TextTruthy(x) == x # Absent /\ x.syntax # "empty"

EmptyStorage == [authToken |-> NullS, userData |-> Absent]

\* UserOf with id read from userData.id alone, the `userData._id ||` left out
UserOf_IgnoresMongoId(userData) ==
  [t |-> "object",
   id |-> userData.id,
   name |-> userData.name,
   email |-> userData.email,
   phone |-> userData.phone,
   role |-> userData.role,
   startDate |-> userData.startDate]

\* the object login builds from result.data.user
UserOf(userData) ==
  [t |-> "object",
   id |-> IF Truthy(userData._id) THEN userData._id ELSE userData.id,
   name |-> userData.name,
   email |-> userData.email,
   phone |-> userData.phone,
   role |-> userData.role,
   startDate |-> userData.startDate]

\* what may be in localStorage when the provider mounts
StoredTokens == {NullS, "", "T0"}
StoredUsers ==
  {Absent, EmptyText, NullText, MalformedText} \cup {JSONstringify(UserOf(u)) : u \in ApiUsers}

(* ------------------------------ history -------------------------------- *)

\* the operation that ran last, what it was given, what it returned and the
\* state it started from
NoOp ==
  [op |-> "none", call |-> 0, resp |-> Rejected, fault |-> "none", ret |-> "none",
   threw |-> FALSE, preUser |-> Null, preToken |-> NullS, preStorage |-> EmptyStorage,
   preLoading |-> TRUE, preNav |-> 0]

Snapshot(op, call, resp, fault, ret, threw) ==
  [op |-> op, call |-> call, resp |-> resp, fault |-> fault, ret |-> ret, threw |-> threw,
   preUser |-> user, preToken |-> token, preStorage |-> localStorage,
   preLoading |-> loading, preNav |-> navCount]

(* ------------------------------- Init ---------------------------------- *)

\* no successful login yet
NoLogin == [t |-> "none"]

\* the create-task form as constructed, and as handleModalClose resets it
EmptyForm ==
  [title |-> "", description |-> "", dueDate |-> "", assignedTo |-> <<>>, picture |-> ""]

\* the modal of the task page as constructed: closed, empty form, no search term,
\* short employee list; creating counts the createTask requests in flight
ClosedModal ==
  [isCreateModalOpen |-> FALSE, formData |-> EmptyForm, searchTerm |-> "",
   showAllEmployees |-> FALSE, creating |-> 0]

\* the provider as constructed (useState initial values) over storage; the Home
\* view is open or not
InitOver(storages, home) ==
  /\ user = Null
  /\ token = NullS
  /\ loading = TRUE
  /\ localStorage \in storages
  /\ initialized = FALSE
  /\ calls = [c \in 1..MaxLogins |-> "idle"]
  /\ navCount = 0
  /\ last = NoOp
  /\ restarts = 0
  /\ goodLogin = NoLogin
  /\ staleCalls = {}
  /\ homeMounted \in home
  /\ homePush = "none"
  /\ homeVisits = 0
  /\ adminDashboard = [employees |-> <<>>, allTasks |-> <<>>, forms |-> <<>>,
                       loading |-> FALSE, pending |-> 0]
  /\ adminTasksPage = [tasks |-> <<>>, employees |-> <<>>, loading |-> FALSE, pending |-> 0]
  /\ loadsIssued = 0
  /\ lastLoad = [view |-> "none"]
  /\ taskForm = ClosedModal
  /\ lastForm = [op |-> "none"]

Init == InitOver([authToken : StoredTokens, userData : StoredUsers], {FALSE})

(* ------------------------------ Home view ------------------------------ *)

\* HomeRoute without the `if (!loading)` guard
HomeRoute_IgnoresLoading(u, l) ==
  IF u = Null THEN "/auth/login"
  ELSE IF u.role = "admin" THEN "/admin/dashboard"
  ELSE "/dashboard"

\* the effect of HomeContent: nothing while loading, else the route pushed
HomeRoute(u, l) ==
  IF l THEN "none"
  ELSE IF u = Null THEN "/auth/login"
  ELSE IF u.role = "admin" THEN "/admin/dashboard"
  ELSE "/dashboard"

\* the render that follows a step of the store: the effect of a mounted
\* HomeContent runs again when user or loading changed (freshUser: setUser was
\* given a new object)
HomeRerender(freshUser) ==
  /\ homePush' = IF homeMounted /\ (freshUser \/ user' # user \/ loading' # loading)
                 THEN HomeRoute(user', loading')
                 ELSE "none"
  /\ UNCHANGED homeMounted

(* ----------------------- mount effect (initialize) --------------------- *)

\* the body of the mount effect up to setLoading: with both stored strings
\* truthy, setToken(storedToken) and then setUser(JSON.parse(storedUser)); a
\* SyntaxError from JSON.parse skips setUser and removes both keys
RestoreSession(storage) ==
  IF Truthy(storage.authToken) /\ TextTruthy(storage.userData)
  THEN IF JSONparse(storage.userData).ok
       THEN [user |-> JSONparse(storage.userData).value, token |-> storage.authToken,
             localStorage |-> storage, threw |-> FALSE]
       ELSE [user |-> user, token |-> storage.authToken,
             localStorage |-> EmptyStorage, threw |-> TRUE]
  ELSE [user |-> user, token |-> token, localStorage |-> storage, threw |-> FALSE]

\* Initialize without the final setLoading(false)
Initialize_KeepsLoading ==
  /\ ~initialized
  /\ LET r == RestoreSession(localStorage) IN
       /\ user' = r.user
       /\ token' = r.token
       /\ localStorage' = r.localStorage
       /\ last' = Snapshot("initialize", 0, Rejected, "none", "none", r.threw)
  /\ loading' = loading
  /\ initialized' = TRUE
  /\ UNCHANGED <<calls, navCount>>
  /\ UNCHANGED histVars
  /\ HomeRerender(FALSE)
  /\ UNCHANGED otherVars

Initialize ==
  /\ ~initialized
  /\ LET r == RestoreSession(localStorage) IN
       /\ user' = r.user
       /\ token' = r.token
       /\ localStorage' = r.localStorage
       /\ last' = Snapshot("initialize", 0, Rejected, "none", "none", r.threw)
  /\ loading' = FALSE
  /\ initialized' = TRUE
  /\ UNCHANGED <<calls, navCount>>
  /\ UNCHANGED histVars
  /\ HomeRerender(FALSE)
  /\ UNCHANGED otherVars

(* -------------------------------- login -------------------------------- *)

\* result.success && result.data
ResponseOk(resp) == resp.kind = "resolve" /\ resp.success /\ resp.data # NoData

\* LoginThen with the two setItem calls left out
LoginThen_SkipsStorage(data, fault) ==
  IF data.user = NoData
  THEN [user |-> user, token |-> data.accessToken, localStorage |-> localStorage,
        completion |-> "throw"]
  ELSE [user |-> UserOf(data.user), token |-> data.accessToken,
        localStorage |-> localStorage, completion |-> "true"]

\* the branch taken on a successful response: setToken, setUser (reading a
\* property of a missing user record throws a TypeError), then the two
\* setItem calls, either of which may throw; return true
LoginThen(data, fault) ==
  IF data.user = NoData
  THEN [user |-> user, token |-> data.accessToken, localStorage |-> localStorage,
        completion |-> "throw"]
  ELSE IF fault = "authToken"
  THEN [user |-> UserOf(data.user), token |-> data.accessToken,
        localStorage |-> localStorage, completion |-> "throw"]
  ELSE IF fault = "userData"
  THEN [user |-> UserOf(data.user), token |-> data.accessToken,
        localStorage |-> [localStorage EXCEPT !.authToken = data.accessToken],
        completion |-> "throw"]
  ELSE [user |-> UserOf(data.user), token |-> data.accessToken,
        localStorage |-> [authToken |-> data.accessToken,
                          userData |-> JSONstringify(UserOf(data.user))],
        completion |-> "true"]

\* LoginElse with the session reset on a failed login
LoginElse_ClearsSession(resp) ==
  [user |-> Null, token |-> NullS, localStorage |-> localStorage,
   completion |-> IF resp.kind = "reject" THEN "throw" ELSE "false"]

\* the path of a response that is not a success with data (return false) and
\* of a rejected request (the await throws): nothing is written
LoginElse(resp) ==
  [user |-> user, token |-> token, localStorage |-> localStorage,
   completion |-> IF resp.kind = "reject" THEN "throw" ELSE "false"]

\* the try block from the settled request on
LoginTry(resp, fault) ==
  IF ResponseOk(resp) THEN LoginThen(resp.data, fault) ELSE LoginElse(resp)

\* LoginCatch without the catch clause: the exception leaves login
LoginCatch_Rethrows(completion) == completion

\* catch (error) { console.error(...); return false; }
LoginCatch(completion) == IF completion = "throw" THEN "false" ELSE completion

\* LoginFinally with setLoading(false) at the end of the try block instead of
\* in a finally clause: an exception skips it
LoginFinally_SkippedOnThrow(completion) == IF completion = "throw" THEN loading ELSE FALSE

\* finally { setLoading(false); }: the value of loading when login returns
LoginFinally(completion) == FALSE

\* login up to the await: setLoading(true) and the request is issued
LoginCall(c) ==
  /\ initialized
  /\ calls[c] = "idle"
  /\ \A d \in 1..(c - 1) : calls[d] # "idle"
  /\ loading' = TRUE
  /\ calls' = [calls EXCEPT ![c] = "inflight"]
  /\ last' = Snapshot("loginCall", c, Rejected, "none", "none", FALSE)
  /\ UNCHANGED <<user, token, localStorage, initialized, navCount>>
  /\ UNCHANGED histVars
  /\ HomeRerender(FALSE)
  /\ UNCHANGED otherVars

\* the setItem calls are reached: the response is a success whose data has a user
ReachesStorage(resp) == ResponseOk(resp) /\ resp.data.user # NoData

\* login from the settled request to its return; a storage fault can only be
\* met by a login that reaches its setItem calls
LoginSettle(c, resp, fault) ==
  /\ calls[c] = "inflight"
  /\ fault # "none" => ReachesStorage(resp)
  /\ LET r == LoginTry(resp, fault) IN
       /\ user' = r.user
       /\ token' = r.token
       /\ localStorage' = r.localStorage
       /\ calls' = [calls EXCEPT ![c] = LoginCatch(r.completion)]
       /\ loading' = LoginFinally(r.completion)
       /\ last' = Snapshot("login", c, resp, fault, LoginCatch(r.completion),
                           r.completion = "throw")
       /\ goodLogin' = IF r.completion = "true"
                       THEN [t |-> "login", token |-> r.token, user |-> r.user]
                       ELSE goodLogin
  /\ UNCHANGED <<initialized, navCount, restarts, staleCalls>>
  /\ HomeRerender(ReachesStorage(resp))
  /\ UNCHANGED otherVars

(* -------------------------------- logout ------------------------------- *)

\* LogoutStorage with only the token removed
LogoutStorage_KeepsUserData(storage) == [storage EXCEPT !.authToken = NullS]

\* removeItem('authToken'); removeItem('userData')
LogoutStorage(storage) == [authToken |-> NullS, userData |-> Absent]

\* window.location.href = '/auth/login': one navigation
LogoutNavigate(n) == n + 1

Logout ==
  /\ initialized
  /\ navCount < MaxLogouts
  /\ user' = Null
  /\ token' = NullS
  /\ localStorage' = LogoutStorage(localStorage)
  /\ navCount' = LogoutNavigate(navCount)
  /\ last' = Snapshot("logout", 0, Rejected, "none", "none", FALSE)
  /\ goodLogin' = NoLogin
  /\ staleCalls' = staleCalls \cup {c \in 1..MaxLogins : calls[c] = "inflight"}
  /\ UNCHANGED <<loading, initialized, calls, restarts>>
  /\ HomeRerender(FALSE)
  /\ UNCHANGED otherVars

(* ------------------------------ page reload ---------------------------- *)

\* the page is loaded again: a new provider is constructed over the same
\* localStorage, and the login calls of the old page never return
Restart ==
  /\ restarts < MaxRestarts
  /\ user' = Null
  /\ token' = NullS
  /\ loading' = TRUE
  /\ initialized' = FALSE
  /\ calls' = [c \in 1..MaxLogins |-> IF calls[c] = "inflight" THEN "abandoned" ELSE calls[c]]
  /\ restarts' = restarts + 1
  /\ last' = Snapshot("restart", 0, Rejected, "none", "none", FALSE)
  /\ homePush' = "none"
  /\ UNCHANGED <<localStorage, navCount, goodLogin, staleCalls, homeMounted>>
  /\ UNCHANGED otherVars

(* ------------------------- Home view, mount and leave ------------------ *)

\* the Home view is opened: HomeContent mounts and its effect runs
HomeVisit ==
  /\ ~homeMounted
  /\ homeVisits < MaxVisits
  /\ homeMounted' = TRUE
  /\ homeVisits' = homeVisits + 1
  /\ homePush' = HomeRoute(user, loading)
  /\ last' = Snapshot("homeVisit", 0, Rejected, "none", "none", FALSE)
  /\ UNCHANGED <<user, token, loading, localStorage, initialized, calls, navCount>>
  /\ UNCHANGED histVars
  /\ UNCHANGED loadVars

\* the router has left the Home view: HomeContent unmounts
HomeLeave ==
  /\ homeMounted
  /\ homeMounted' = FALSE
  /\ homePush' = "none"
  /\ last' = Snapshot("homeLeave", 0, Rejected, "none", "none", FALSE)
  /\ UNCHANGED <<user, token, loading, localStorage, initialized, calls, navCount>>
  /\ UNCHANGED histVars
  /\ UNCHANGED otherVars

(* ------------------- admin dashboard and admin task page --------------- *)

\* a task's assignedTo as the API returns it: one user id, or an array of ids
Str(v) == [t |-> "string", v |-> v]
Arr(v) == [t |-> "array", v |-> v]

\* rows of getAllUsers({role: 'user'})
EmployeeRow1 ==
  [_id |-> "m1", id |-> Undefined, name |-> "A", email |-> "a@x.com", phone |-> Undefined,
   role |-> "user", startDate |-> "2024-01-01", department |-> "eng"]
EmployeeRow2 ==
  [_id |-> Undefined, id |-> "2", name |-> "D", email |-> "d@x.com", phone |-> "556",
   role |-> "user", startDate |-> "2024-02-01", department |-> Undefined]

\* rows of getAllTasks
TaskRow1 ==
  [_id |-> "k1", id |-> Undefined, title |-> "Read handbook", description |-> "d1",
   status |-> "completed", dueDate |-> "2024-03-01", type |-> "doc", category |-> Undefined,
   priority |-> Undefined, assignedTo |-> Str("m1"), picture |-> Undefined]
TaskRow2 ==
  [_id |-> Undefined, id |-> "k2", title |-> "Set up laptop", description |-> "d2",
   status |-> "pending", dueDate |-> "2024-03-02", type |-> Undefined, category |-> "it",
   priority |-> "high", assignedTo |-> Str("m1"), picture |-> "p.png"]
TaskRow3 ==
  [_id |-> "k3", id |-> "3", title |-> "Meet the team", description |-> "d3",
   status |-> "completed", dueDate |-> "2024-03-03", type |-> Undefined, category |-> Undefined,
   priority |-> "low", assignedTo |-> Arr(<<"2">>), picture |-> Undefined]

\* a row of getAllForms
FormRow1 ==
  [_id |-> "f1", id |-> Undefined, title |-> "Feedback", description |-> "d4",
   assignedTo |-> "user", fields |-> Undefined, createdAt |-> "2024-01-05"]

\* the data of a response: an array of rows, or for forms also an object
\* {forms: rows}
Rows(rows) == [t |-> "array", rows |-> rows]
FormsObject(rows) == [t |-> "object", forms |-> Rows(rows)]

\* what one of the parallel requests settles to: a rejected promise, or a
\* resolved {success, data?}
RequestOutcomes(datas) ==
  {Rejected, FailureResponse, SuccessNoData} \cup
  { [kind |-> "resolve", success |-> TRUE, data |-> x] : x \in datas }
UsersOutcomes == RequestOutcomes({Rows(<<>>), Rows(<<EmployeeRow1>>), Rows(<<EmployeeRow1, EmployeeRow2>>)})
TasksOutcomes == RequestOutcomes({Rows(<<>>), Rows(<<TaskRow1>>), Rows(<<TaskRow1, TaskRow2, TaskRow3>>)})
FormsOutcomes == RequestOutcomes({Rows(<<>>), Rows(<<FormRow1>>), FormsObject(<<FormRow1>>)})

\* a request resolved with {success: true, data}
Resolved(data) == [kind |-> "resolve", success |-> TRUE, data |-> data]

\* a || b on strings
OrElse(a, b) == IF Truthy(a) THEN a ELSE b

\* Array.prototype.map
MapRows(F(_), rows) == [i \in 1..Len(rows) |-> F(rows[i])]

\* the dashboard's view models of a user, a task and a form
DashboardUser(u) ==
  [id |-> OrElse(u._id, u.id), name |-> u.name, email |-> u.email, phone |-> u.phone,
   role |-> u.role, startDate |-> u.startDate, department |-> u.department]
DashboardTask(x) ==
  [id |-> OrElse(x._id, x.id), title |-> x.title, description |-> x.description,
   status |-> x.status, dueDate |-> x.dueDate, category |-> OrElse(x.type, x.category),
   priority |-> OrElse(x.priority, "medium"), userId |-> x.assignedTo]
DashboardForm(f) ==
  [id |-> OrElse(f._id, f.id), title |-> f.title, description |-> f.description,
   assignedTo |-> f.assignedTo, fields |-> OrElse(f.fields, "[]"), createdAt |-> f.createdAt]

\* the task page's view models of a task and an employee
PageTask(x) ==
  [id |-> OrElse(x._id, x.id), title |-> x.title, description |-> x.description,
   status |-> x.status, dueDate |-> x.dueDate, userId |-> x.assignedTo, picture |-> x.picture]
PageEmployee(u) ==
  [id |-> OrElse(u._id, u.id), name |-> u.name, email |-> u.email, role |-> u.role,
   startDate |-> u.startDate, department |-> u.department]

\* formsResponse.data.forms || formsResponse.data
FormsData(data) == IF data.t = "object" THEN data.forms ELSE data

\* response.success && response.data
HasData(resp) == resp.kind = "resolve" /\ resp.success /\ resp.data # NoData

\* user?.role === 'admin': the condition of both views' effects
IsAdmin == user # Null /\ user.role = "admin"

\* the collection a view holds after a response: the mapped rows of a success
\* with data, else what it held
Received(F(_), resp, held) == IF HasData(resp) THEN MapRows(F, resp.data.rows) ELSE held

\* the effect of AdminDashboard up to the await of Promise.all
LoadDashboardDataCall ==
  /\ IsAdmin
  /\ loadsIssued + taskForm.creating < MaxLoads
  /\ loadsIssued' = loadsIssued + 1
  /\ adminDashboard' = [adminDashboard EXCEPT !.loading = TRUE, !.pending = @ + 1]
  /\ lastLoad' = [view |-> "dashboardCall"]
  /\ UNCHANGED <<adminTasksPage, homeVars>>
  /\ UNCHANGED formVars
  /\ UNCHANGED storeVars
  /\ UNCHANGED histVars

\* loadDashboardData from the settled Promise.all on: a rejected request makes
\* the await throw and the catch empties the three collections
LoadDashboardDataSettle(usersResponse, tasksResponse, formsResponse) ==
  /\ adminDashboard.pending > 0
  /\ LET rejected == "reject" \in {usersResponse.kind, tasksResponse.kind, formsResponse.kind}
         formsRows == IF HasData(formsResponse)
                      THEN [formsResponse EXCEPT !.data = FormsData(formsResponse.data)]
                      ELSE formsResponse
     IN adminDashboard' =
          [employees |-> IF rejected THEN <<>>
                         ELSE Received(DashboardUser, usersResponse, adminDashboard.employees),
           allTasks |-> IF rejected THEN <<>>
                        ELSE Received(DashboardTask, tasksResponse, adminDashboard.allTasks),
           forms |-> IF rejected THEN <<>>
                     ELSE Received(DashboardForm, formsRows, adminDashboard.forms),
           loading |-> FALSE,
           pending |-> adminDashboard.pending - 1]
  /\ lastLoad' = [view |-> "dashboard", users |-> usersResponse, tasks |-> tasksResponse,
                  forms |-> formsResponse, before |-> adminDashboard]
  /\ UNCHANGED <<adminTasksPage, loadsIssued, homeVars>>
  /\ UNCHANGED formVars
  /\ UNCHANGED storeVars
  /\ UNCHANGED histVars

\* loadData up to the await of Promise.all: setLoading(true) and the two
\* requests are issued
LoadDataIssue ==
  /\ loadsIssued' = loadsIssued + 1
  /\ adminTasksPage' = [adminTasksPage EXCEPT !.loading = TRUE, !.pending = @ + 1]
  /\ lastLoad' = [view |-> "tasksCall"]

\* the effect of AdminTasksPage up to the await of Promise.all
LoadDataCall ==
  /\ IsAdmin
  /\ loadsIssued + taskForm.creating < MaxLoads
  /\ LoadDataIssue
  /\ UNCHANGED <<adminDashboard, homeVars>>
  /\ UNCHANGED formVars
  /\ UNCHANGED storeVars
  /\ UNCHANGED histVars

\* loadData from the settled Promise.all on
LoadDataSettle(tasksResponse, usersResponse) ==
  /\ adminTasksPage.pending > 0
  /\ LET rejected == "reject" \in {tasksResponse.kind, usersResponse.kind}
     IN adminTasksPage' =
          [tasks |-> IF rejected THEN <<>>
                     ELSE Received(PageTask, tasksResponse, adminTasksPage.tasks),
           employees |-> IF rejected THEN <<>>
                         ELSE Received(PageEmployee, usersResponse, adminTasksPage.employees),
           loading |-> FALSE,
           pending |-> adminTasksPage.pending - 1]
  /\ lastLoad' = [view |-> "tasks", users |-> usersResponse, tasks |-> tasksResponse,
                  before |-> adminTasksPage]
  /\ UNCHANGED <<adminDashboard, loadsIssued, homeVars>>
  /\ UNCHANGED formVars
  /\ UNCHANGED storeVars
  /\ UNCHANGED histVars

\* calculateOnboardingProgress of @/lib/onboardingUtils: the percentage of the
\* tasks that are completed, 0 for an empty collection
Completed(tasks) == Cardinality({i \in 1..Len(tasks) : tasks[i].status = "completed"})
calculateOnboardingProgress(tasks) ==
  IF Len(tasks) = 0 THEN 0 ELSE (100 * Completed(tasks)) \div Len(tasks)

\* Array.prototype.filter
Filter(P(_), rows) == SelectSeq(rows, P)

\* allTasks.filter(task => task.userId === emp.id)
EmpTasks_NoFilter(emp) == adminDashboard.allTasks
EmpTasks(emp) ==
  LET Mine(task) == task.userId = Str(emp.id)
  IN Filter(Mine, adminDashboard.allTasks)

\* getEmployeeStats
getEmployeeStats ==
  LET Progress(emp) == calculateOnboardingProgress(EmpTasks(emp))
      Active(emp) == Progress(emp) > 0 /\ Progress(emp) < 100
      Done(emp) == Progress(emp) = 100
  IN [totalEmployees |-> Len(adminDashboard.employees),
      activeEmployees |-> Len(Filter(Active, adminDashboard.employees)),
      completedEmployees |-> Len(Filter(Done, adminDashboard.employees))]

(* ----------------------- create-task modal of the task page ------------- *)

\* number of employees the modal lists before Show All
DisplayLimit == 5

\* further rows of getAllUsers: with the two above, more users than the modal
\* lists at once, and an admin
EmployeeRow3 ==
  [_id |-> "m3", id |-> Undefined, name |-> "E", email |-> "e@x.com", phone |-> Undefined,
   role |-> "user", startDate |-> "2024-03-01", department |-> "Ops"]
EmployeeRow4 ==
  [_id |-> "m4", id |-> Undefined, name |-> "F", email |-> "f@x.com", phone |-> Undefined,
   role |-> "user", startDate |-> "2024-03-02", department |-> "eng"]
EmployeeRow5 ==
  [_id |-> "m5", id |-> Undefined, name |-> "G", email |-> "g@x.com", phone |-> Undefined,
   role |-> "user", startDate |-> "2024-03-03", department |-> Undefined]
EmployeeRow6 ==
  [_id |-> "m6", id |-> Undefined, name |-> "H", email |-> "h@x.com", phone |-> Undefined,
   role |-> "user", startDate |-> "2024-03-04", department |-> "Ops"]
AdminRow ==
  [_id |-> "m9", id |-> Undefined, name |-> "Z", email |-> "z@x.com", phone |-> Undefined,
   role |-> "admin", startDate |-> "2024-03-05", department |-> "eng"]
ManyEmployees ==
  <<EmployeeRow1, AdminRow, EmployeeRow2, EmployeeRow3, EmployeeRow4, EmployeeRow5,
    EmployeeRow6>>

\* what the admin may type into the search box
SearchTerms == {"", "ENG", "zz"}

\* what the admin may type into a text field of the form
FieldTexts == {"x"}

\* the employees whose checkbox the admin may click: the first of the list and
\* one beyond the first five
ToggleIds == {"m1", "m6"}

\* the characters of the strings above
Mail(c) == <<c, "@", "x", ".", "c", "o", "m">>
Chars(s) ==
  CASE s = "" -> <<>>
    [] s \in {"A", "D", "E", "F", "G", "H", "Z"} -> <<s>>
    [] s = "a@x.com" -> Mail("a")
    [] s = "d@x.com" -> Mail("d")
    [] s = "e@x.com" -> Mail("e")
    [] s = "f@x.com" -> Mail("f")
    [] s = "g@x.com" -> Mail("g")
    [] s = "h@x.com" -> Mail("h")
    [] s = "z@x.com" -> Mail("z")
    [] s = "eng" -> <<"e", "n", "g">>
    [] s = "ENG" -> <<"E", "N", "G">>
    [] s = "Ops" -> <<"O", "p", "s">>
    [] s = "zz" -> <<"z", "z">>

\* String.prototype.toLowerCase
LowerChar(c) ==
  CASE c = "A" -> "a" [] c = "D" -> "d" [] c = "E" -> "e" [] c = "F" -> "f"
    [] c = "G" -> "g" [] c = "H" -> "h" [] c = "N" -> "n" [] c = "O" -> "o"
    [] c = "Z" -> "z" [] OTHER -> c
toLowerCase(cs) == [i \in 1..Len(cs) |-> LowerChar(cs[i])]

\* String.prototype.includes
includes(hay, needle) ==
  \E i \in 0..(Len(hay) - Len(needle)) : SubSeq(hay, i + 1, i + Len(needle)) = needle

\* the search filter of one employee: name, email or department contains the
\* search term, case-insensitively; an absent department matches nothing
MatchesSearch(emp, term) ==
  LET q == toLowerCase(Chars(term))
  IN \/ includes(toLowerCase(Chars(emp.name)), q)
     \/ includes(toLowerCase(Chars(emp.email)), q)
     \/ /\ emp.department # Undefined
        /\ includes(toLowerCase(Chars(emp.department)), q)

\* the employees with role 'user' that match the search term
FilteredOf(employees, term) ==
  LET IsUser(emp) == emp.role = "user"
      Found(emp) == MatchesSearch(emp, term)
  IN SelectSeq(SelectSeq(employees, IsUser), Found)
filteredEmployees == FilteredOf(adminTasksPage.employees, taskForm.searchTerm)

\* the employees listed: all the filtered ones after Show All, else the first five
DisplayedOf(filtered, showAll) ==
  IF showAll \/ Len(filtered) <= DisplayLimit THEN filtered
  ELSE SubSeq(filtered, 1, DisplayLimit)
displayedEmployees == DisplayedOf(filteredEmployees, taskForm.showAllEmployees)

\* the ids of a sequence of employees, and the ids in a selection
Ids(employees) == {employees[i].id : i \in 1..Len(employees)}
Selected(assignedTo) == {assignedTo[i] : i \in 1..Len(assignedTo)}

\* every listed employee is selected, and there is one
allDisplayedSelected ==
  /\ Len(displayedEmployees) > 0
  /\ Ids(displayedEmployees) \subseteq Selected(taskForm.formData.assignedTo)

\* displayedEmployees.forEach(emp => { if (!acc.includes(emp.id)) acc.push(emp.id) })
RECURSIVE PushMissing(_, _)
PushMissing(acc, employees) ==
  IF employees = <<>> THEN acc
  ELSE PushMissing(IF Head(employees).id \in Selected(acc) THEN acc
                   ELSE Append(acc, Head(employees).id),
                   Tail(employees))

\* the Select All branch pushing every listed employee
SelectAllOf_PushesAll(assignedTo, displayed) ==
  assignedTo \o [i \in 1..Len(displayed) |-> displayed[i].id]
\* the Select All branch of handleSelectAll
SelectAllOf(assignedTo, displayed) == PushMissing(assignedTo, displayed)

\* the Deselect All branch of handleSelectAll
DeselectAllOf(assignedTo, displayed) ==
  LET Kept(id) == id \notin Ids(displayed)
  IN SelectSeq(assignedTo, Kept)

\* the assignedTo of handleEmployeeToggle
ToggleOf(assignedTo, employeeId) ==
  LET Other(id) == id # employeeId
  IN IF employeeId \in Selected(assignedTo) THEN SelectSeq(assignedTo, Other)
     ELSE Append(assignedTo, employeeId)

\* an event of the task page that touches the modal only; the page renders the
\* modal and its button for an admin only
FormEvent(op, form) ==
  /\ IsAdmin
  /\ taskForm' = form
  /\ lastForm' = [op |-> op]
  /\ UNCHANGED <<adminDashboard, adminTasksPage, loadsIssued, lastLoad, homeVars>>
  /\ UNCHANGED storeVars
  /\ UNCHANGED histVars

\* the Create New Task button
OpenCreateModal ==
  /\ ~taskForm.isCreateModalOpen
  /\ FormEvent("open", [taskForm EXCEPT !.isCreateModalOpen = TRUE])

\* the onChange of the title, description, due date and picture inputs
SetField(field, text) ==
  /\ taskForm.isCreateModalOpen
  /\ taskForm.formData[field] # text
  /\ FormEvent("field", [taskForm EXCEPT !.formData[field] = text])

\* the onChange of the search box
SetSearchTerm(term) ==
  /\ taskForm.isCreateModalOpen
  /\ taskForm.searchTerm # term
  /\ FormEvent("search", [taskForm EXCEPT !.searchTerm = term])

\* the Show All / Show Less button, offered when more than five employees match
ToggleShowAll ==
  /\ taskForm.isCreateModalOpen
  /\ Len(filteredEmployees) > DisplayLimit
  /\ FormEvent("showAll", [taskForm EXCEPT !.showAllEmployees = ~@])

handleSelectAll ==
  /\ taskForm.isCreateModalOpen
  /\ FormEvent(IF allDisplayedSelected THEN "deselectAll" ELSE "selectAll",
               [taskForm EXCEPT !.formData.assignedTo =
                  IF allDisplayedSelected THEN DeselectAllOf(@, displayedEmployees)
                  ELSE SelectAllOf(@, displayedEmployees)])

\* the checkbox of a listed employee
handleEmployeeToggle(employeeId) ==
  /\ taskForm.isCreateModalOpen
  /\ employeeId \in Ids(displayedEmployees)
  /\ FormEvent("toggle", [taskForm EXCEPT !.formData.assignedTo = ToggleOf(@, employeeId)])

\* the Clear All button of the selection summary
ClearAll ==
  /\ taskForm.isCreateModalOpen
  /\ Len(taskForm.formData.assignedTo) > 0
  /\ FormEvent("clearAll", [taskForm EXCEPT !.formData.assignedTo = <<>>])

\* handleModalClose without the reset of the form
ModalClosed_KeepsForm == [taskForm EXCEPT !.isCreateModalOpen = FALSE]
\* the modal after handleModalClose: closed, search and form reset
ModalClosed ==
  [taskForm EXCEPT !.isCreateModalOpen = FALSE, !.searchTerm = "",
                   !.showAllEmployees = FALSE, !.formData = EmptyForm]

\* the Cancel button and the modal's onClose
handleModalClose ==
  /\ taskForm.isCreateModalOpen
  /\ FormEvent("close", ModalClosed)

\* what taskAPI.createTask settles to: a rejected promise, or a resolved
\* {success}
CreateOutcomes == {Rejected, FailureResponse, SuccessNoData}

\* the Create Task button is disabled until title, description and due date are
\* filled in
CanCreate ==
  /\ Truthy(taskForm.formData.title)
  /\ Truthy(taskForm.formData.description)
  /\ Truthy(taskForm.formData.dueDate)

\* handleCreateTask up to the await of taskAPI.createTask
HandleCreateTaskCall ==
  /\ taskForm.isCreateModalOpen
  /\ CanCreate
  /\ loadsIssued + taskForm.creating < MaxLoads
  /\ FormEvent("createCall", [taskForm EXCEPT !.creating = @ + 1])

\* handleCreateTask from the settled request on: a success closes the modal and
\* calls loadData, anything else only alerts
HandleCreateTaskSettle(response) ==
  /\ taskForm.creating > 0
  /\ IF response.kind = "resolve" /\ response.success
     THEN /\ taskForm' = [ModalClosed EXCEPT !.creating = @ - 1]
          /\ LoadDataIssue
     ELSE /\ taskForm' = [taskForm EXCEPT !.creating = @ - 1]
          /\ UNCHANGED <<adminTasksPage, loadsIssued, lastLoad>>
  /\ lastForm' = [op |-> "create", response |-> response]
  /\ UNCHANGED <<adminDashboard, homeVars>>
  /\ UNCHANGED storeVars
  /\ UNCHANGED histVars

(* ----------------------------- specification --------------------------- *)

Next ==
  \/ Initialize
  \/ \E c \in 1..MaxLogins : LoginCall(c)
  \/ \E c \in 1..MaxLogins, resp \in ApiOutcomes, fault \in StorageFaults :
       LoginSettle(c, resp, fault)
  \/ Logout

Spec == Init /\ [][Next]_vars

\* the store across a page reload, started over empty storage
InitFresh == InitOver({EmptyStorage}, {FALSE})
NextRestart == Next \/ Restart
SpecRestart == InitFresh /\ [][NextRestart]_vars

\* the store over storage that only this store has written: nothing, or the
\* two keys of a login
OwnStorages ==
  {EmptyStorage} \cup
  { [authToken |-> a, userData |-> JSONstringify(UserOf(u))] : a \in Tokens, u \in ApiUsers }
InitOwn == InitOver(OwnStorages, {FALSE})
SpecOwn == InitOwn /\ [][Next]_vars

\* the store over storage that holds both keys or neither
PairedStorages ==
  { s \in [authToken : StoredTokens, userData : StoredUsers] :
      (s.authToken = NullS) <=> (s.userData = Absent) }
InitPaired == InitOver(PairedStorages, {FALSE})
SpecPaired == InitPaired /\ [][Next]_vars

\* the store with the Home view, which may be the page the application opens on
StartStorages ==
  {EmptyStorage} \cup
  { [authToken |-> "T0", userData |-> x] :
      x \in {NullText, MalformedText} \cup {JSONstringify(UserOf(u)) : u \in ApiUsers} }
InitHome == InitOver(StartStorages, BOOLEAN)
NextHome ==
  \/ Initialize
  \/ \E c \in 1..HomeLogins : LoginCall(c)
  \/ \E c \in 1..HomeLogins, resp \in ApiOutcomes, fault \in StorageFaults :
       LoginSettle(c, resp, fault)
  \/ Logout
  \/ HomeVisit
  \/ HomeLeave
SpecHome == InitHome /\ [][NextHome]_vars

\* the admin views of a session restored from storage
ViewStorages ==
  {EmptyStorage} \cup
  { [authToken |-> "T0", userData |-> JSONstringify(UserOf(u))] : u \in ApiUsers }
InitViews == InitOver(ViewStorages, {FALSE})
NextViews ==
  \/ Initialize
  \/ LoadDashboardDataCall
  \/ \E ur \in UsersOutcomes, tr \in TasksOutcomes, fr \in FormsOutcomes :
       LoadDashboardDataSettle(ur, tr, fr)
  \/ LoadDataCall
  \/ \E tr \in TasksOutcomes, ur \in UsersOutcomes : LoadDataSettle(tr, ur)
SpecViews == InitViews /\ [][NextViews]_vars

\* the create-task modal of an admin over a long employee list
InitForm ==
  InitOver({ [authToken |-> "T0", userData |-> JSONstringify(UserOf(u))] :
               u \in {v \in ApiUsers : v.role = "admin"} }, {FALSE})
NextForm ==
  \/ Initialize
  \/ LoadDataCall
  \/ \E ur \in {Resolved(Rows(ManyEmployees)), FailureResponse} :
       LoadDataSettle(Resolved(Rows(<<>>)), ur)
  \/ OpenCreateModal
  \/ \E term \in SearchTerms : SetSearchTerm(term)
  \/ ToggleShowAll
  \/ handleSelectAll
  \/ \E id \in ToggleIds : handleEmployeeToggle(id)
  \/ ClearAll
  \/ handleModalClose
SpecForm == InitForm /\ [][NextForm]_vars

\* the task page with its modal while the session changes
InitTasks ==
  InitOver({ [authToken |-> "T0", userData |-> JSONstringify(UserOf(u))] :
               u \in {v \in ApiUsers : v._id = Undefined \/ v.id = Undefined} }, {FALSE})
NextTasks ==
  \/ Initialize
  \/ \E c \in 1..HomeLogins : LoginCall(c)
  \/ \E c \in 1..HomeLogins, u \in ApiUsers : LoginSettle(c, Success("T1", u), "none")
  \/ Logout
  \/ LoadDataCall
  \/ \E ur \in {Resolved(Rows(<<EmployeeRow1, EmployeeRow2>>)), Rejected} :
       LoadDataSettle(Resolved(Rows(<<TaskRow1>>)), ur)
  \/ OpenCreateModal
  \/ \E field \in {"title", "description", "dueDate", "picture"}, text \in FieldTexts :
       SetField(field, text)
  \/ handleModalClose
  \/ HandleCreateTaskCall
  \/ \E response \in CreateOutcomes : HandleCreateTaskSettle(response)
SpecTasks == InitTasks /\ [][NextTasks]_vars

\* an admin creating tasks
NextCreate ==
  \/ Initialize
  \/ LoadDataCall
  \/ \E ur \in {Resolved(Rows(<<EmployeeRow1, EmployeeRow2>>)), Rejected} :
       LoadDataSettle(Resolved(Rows(<<TaskRow1>>)), ur)
  \/ OpenCreateModal
  \/ \E field \in {"title", "description", "dueDate", "picture"}, text \in FieldTexts :
       SetField(field, text)
  \/ \E term \in {"zz"} : SetSearchTerm(term)
  \/ \E id \in ToggleIds : handleEmployeeToggle(id)
  \/ handleModalClose
  \/ HandleCreateTaskCall
  \/ \E response \in CreateOutcomes : HandleCreateTaskSettle(response)
SpecCreate == InitForm /\ [][NextCreate]_vars

TypeOK ==
  /\ loading \in BOOLEAN
  /\ initialized \in BOOLEAN
  /\ navCount \in 0..MaxLogouts
  /\ \A c \in 1..MaxLogins : calls[c] \in {"idle", "inflight", "abandoned", "true", "false"}
  /\ restarts \in 0..MaxRestarts
  /\ homeMounted \in BOOLEAN

(* ------------------------------- claims -------------------------------- *)

Authenticated == user # Null /\ token # NullS
Anonymous == user = Null /\ token = NullS
InFlight(c) == calls[c] = "inflight"

\* the stored strings the mount effect read, and whether it found both
StoredBoth(storage) == Truthy(storage.authToken) /\ TextTruthy(storage.userData)

\* the user a login is to build from the record r of the response
ExpectedUser(r) ==
  [t |-> "object", id |-> IF r._id \in {Undefined, NullS, ""} THEN r.id ELSE r._id,
   name |-> r.name, email |-> r.email, phone |-> r.phone, role |-> r.role,
   startDate |-> r.startDate]

\* the response of the last login is a success with a payload {accessToken, user}
FullSuccess(resp) ==
  resp.kind = "resolve" /\ resp.success /\ resp.data # NoData /\ resp.data.user # NoData

\* storage holds the token and the user of payload data
Persisted(data) ==
  /\ localStorage.authToken = data.accessToken
  /\ localStorage.userData # Absent
  /\ JSONparse(localStorage.userData).ok
  /\ JSONparse(localStorage.userData).value = ExpectedUser(data.user)

\* C1: after every operation of the store (initialize, login, logout), whatever
\* its outcome, the token is non-null if and only if the user is non-null.
C1_TokenIffUser ==
  last.op \in {"initialize", "login", "logout"} => ((token # NullS) <=> (user # Null))

\* C2: when initialize finds both keys and the stored userData does not parse,
\* the session is Anonymous afterwards and both keys are gone from storage.
C2_CorruptStoredUserYieldsAnonymous ==
  (/\ last.op = "initialize"
   /\ StoredBoth(last.preStorage)
   /\ ~JSONparse(last.preStorage.userData).ok)
  => (Anonymous /\ localStorage = EmptyStorage)

\* C3: logout, from any session state and also while a login is in flight,
\* leaves user and token absent, removes both persisted keys and navigates to
\* the login view exactly once.
C3_LogoutClearsEverything ==
  last.op = "logout"
  => /\ user = Null
     /\ token = NullS
     /\ localStorage.authToken = NullS
     /\ localStorage.userData = Absent
     /\ navCount = last.preNav + 1

\* a logout made while the session was Authenticated, both keys were persisted
\* and a login was in flight
C3_Witness ==
  /\ last.op = "logout"
  /\ last.preUser # Null
  /\ last.preToken # NullS
  /\ StoredBoth(last.preStorage)
  /\ \E c \in 1..MaxLogins : InFlight(c)

C5_FailedLoginYieldsAnonymous ==
  (/\ last.op = "login"
   /\ last.resp \in {FailureResponse, Rejected}
   /\ \/ (last.preUser # Null /\ last.preToken # NullS)
      \/ (last.preUser = Null /\ last.preToken = NullS))
  => Anonymous

\* C5, amended: such a login leaves user and token as they were when the answer
\* arrived, so an Anonymous session stays Anonymous.
C5_FailedLoginKeepsSession ==
  (last.op = "login" /\ last.resp \in {FailureResponse, Rejected})
  => (user = last.preUser /\ token = last.preToken)

\* a login started from an Authenticated session and answered by a transport error
C5_Witness ==
  /\ last.op = "login"
  /\ last.resp = Rejected
  /\ last.preUser # Null
  /\ last.preToken # NullS
  /\ Authenticated

\* C6: login is all-or-nothing: it returns true with user, token and both keys
\* set from the response, or false with all four as they were.
C6_LoginAllOrNothing ==
  last.op = "login"
  => \/ /\ last.ret = "true"
        /\ FullSuccess(last.resp)
        /\ token = last.resp.data.accessToken
        /\ user = ExpectedUser(last.resp.data.user)
        /\ Persisted(last.resp.data)
     \/ /\ last.ret = "false"
        /\ user = last.preUser
        /\ token = last.preToken
        /\ localStorage = last.preStorage

\* C7: login never throws to its caller: every call that has returned has
\* returned a boolean, and false if an exception was raised on the way.
C7_LoginNeverThrows ==
  /\ \A c \in 1..MaxLogins : calls[c] \in {"idle", "inflight", "abandoned", "true", "false"}
  /\ last.op = "login" => /\ last.ret \in {"true", "false"}
                          /\ last.threw => last.ret = "false"

\* a login in which a storage write threw
C7_Witness ==
  /\ last.op = "login"
  /\ last.threw
  /\ last.fault # "none"
  /\ FullSuccess(last.resp)
  /\ last.ret = "false"

\* C8: when a login call returns, by success, failure response or exception,
\* loading is false.
C8_LoginReleasesLoading ==
  [][(\E c \in 1..MaxLogins : InFlight(c) /\ ~InFlight(c)') => ~loading']_vars

\* a login that threw has returned, loading having been true, and it is false
C8_Witness ==
  /\ last.op = "login"
  /\ last.threw
  /\ last.preLoading
  /\ ~loading

\* C9: while at least one login call is in flight, loading is true.
C9_InFlightImpliesLoading ==
  (\E c \in 1..MaxLogins : InFlight(c)) => loading

\* C10: initialize populates the session from storage when both keys are there
\* and userData parses; with a key absent it leaves the session empty and
\* issues no request.
C10_InitializeRestores ==
  last.op = "initialize"
  => /\ (StoredBoth(last.preStorage) /\ JSONparse(last.preStorage.userData).ok)
        => /\ token = last.preStorage.authToken
           /\ user = JSONparse(last.preStorage.userData).value
           /\ Authenticated
     /\ (last.preStorage.authToken = NullS \/ last.preStorage.userData = Absent)
        => /\ Anonymous
           /\ \A c \in 1..MaxLogins : calls[c] = "idle"

\* C11: the session moves only from startup to Authenticated or Anonymous,
\* from Authenticated to Anonymous on logout and from Anonymous to
\* Authenticated on a successful login; once initialized it is in no other
\* state, and every failure leaves it Anonymous.
C11_StateMachine ==
  [][/\ initialized' => (Authenticated' \/ Anonymous')
     /\ (initialized /\ Authenticated /\ Anonymous') => last'.op = "logout"
     /\ (initialized /\ Anonymous /\ Authenticated')
        => (last'.op = "login" /\ last'.ret = "true")
     /\ (last'.op = "login" /\ last'.ret = "false") => Anonymous']_vars

\* the last step of the store set loading from true to false
LoadingCleared == last.preLoading /\ ~loading

\* C12 as stated: loading starts true, the initialize attempt sets it to false,
\* and no other step of the store ever sets it to false.
C12_LoadingClearedOnce ==
  /\ ~initialized => loading
  /\ last.op = "initialize" => ~loading
  /\ LoadingCleared => last.op = "initialize"

\* C12, amended: loading starts true and the initialize attempt sets it to
\* false, whatever its outcome and not before; afterwards it goes from true to
\* false only when a login call returns.
C12_LoadingClearedByInitializeOrLogin ==
  /\ ~initialized => loading
  /\ last.op = "initialize" => ~loading
  /\ LoadingCleared => last.op \in {"initialize", "login"}

\* the initialize attempt has finished over corrupt storage and cleared loading
C12_Witness ==
  /\ last.op = "initialize"
  /\ last.threw
  /\ last.preLoading
  /\ ~loading

\* C13: after a successful login and a page reload with no logout in between,
\* initialize yields an Authenticated session with the token and the user that
\* login set.
C13_RoundTrip ==
  (last.op = "initialize" /\ restarts > 0 /\ goodLogin # NoLogin)
  => /\ token = goodLogin.token
     /\ user = goodLogin.user
     /\ Authenticated

\* the last step is the return of a login that was in flight at a logout and
\* was answered by a success with a payload {accessToken, user}
StaleSuccess ==
  /\ last.op = "login"
  /\ last.call \in staleCalls
  /\ FullSuccess(last.resp)

\* C18 as stated: a login that was in flight at a logout and succeeds afterwards
\* does not set user or token and does not write the persisted keys.
C18_StaleLoginIgnored ==
  (StaleSuccess /\ last.ret = "true")
  => /\ user = last.preUser
     /\ token = last.preToken
     /\ localStorage = last.preStorage

\* C18, amended: such a login is handled like any other: when its storage
\* writes do not throw it returns true, sets user and token from the response
\* and persists both keys, so the session is Authenticated again.
C18_StaleLoginStillApplies ==
  (StaleSuccess /\ last.fault = "none")
  => /\ last.ret = "true"
     /\ Authenticated
     /\ token = last.resp.data.accessToken
     /\ user = ExpectedUser(last.resp.data.user)
     /\ Persisted(last.resp.data)

\* a login in flight at a logout has succeeded over the Anonymous session and
\* the empty storage that the logout left
C18_Witness ==
  /\ StaleSuccess
  /\ last.ret = "true"
  /\ last.preUser = Null
  /\ last.preToken = NullS
  /\ last.preStorage = EmptyStorage
  /\ Authenticated
  /\ localStorage # EmptyStorage

\* C19: once initialization has completed and no login is in flight, the token
\* equals the persisted authToken and the user equals the parsed persisted
\* userData, each absent in memory exactly when absent in storage.
C19_MemoryMatchesStorage ==
  (initialized /\ \A c \in 1..MaxLogins : ~InFlight(c))
  => /\ token = localStorage.authToken
     /\ IF localStorage.userData = Absent
        THEN user = Null
        ELSE /\ JSONparse(localStorage.userData).ok
             /\ user = JSONparse(localStorage.userData).value
             /\ user # Null

\* C20: from storage holding both keys or neither, after every completed
\* initialize, login or logout storage holds both keys or neither.
C20_StorageBothOrNeither ==
  last.op \in {"initialize", "login", "logout"}
  => ((localStorage.authToken = NullS) <=> (localStorage.userData = Absent))

\* the effect of the mounted HomeContent ran in the last step: the view was
\* opened, or a step of the store changed user or loading
HomeEffectRan ==
  /\ homeMounted
  /\ \/ last.op = "homeVisit"
     \/ (last.op \in {"initialize", "loginCall", "login", "logout"}
         /\ (user # last.preUser \/ loading # last.preLoading))

\* the route the Home view is to push for the session's user
ExpectedRoute ==
  IF user = Null THEN "/auth/login"
  ELSE IF user.role = "admin" THEN "/admin/dashboard"
  ELSE "/dashboard"

\* the storage the mount effect read held a token and a userData that parses
\* to a user object
ValidStored(storage) ==
  /\ StoredBoth(storage)
  /\ JSONparse(storage.userData).ok
  /\ JSONparse(storage.userData).value # Null

\* C17: the Home view pushes no route while loading is true; when its effect
\* runs with loading false it pushes /auth/login exactly when there is no
\* user, /admin/dashboard for an admin and /dashboard otherwise; a startup over
\* a valid persisted session does not push /auth/login.
C17_HomeNavigation ==
  /\ homePush # "none" => (~loading /\ homeMounted /\ homePush = ExpectedRoute)
  /\ (HomeEffectRan /\ loading) => homePush = "none"
  /\ (HomeEffectRan /\ ~loading) => homePush = ExpectedRoute
  /\ (last.op = "initialize" /\ ValidStored(last.preStorage)) => homePush # "/auth/login"

\* the application has started on the Home view over a persisted admin
\* session, and the view has pushed the admin dashboard
C17_Witness ==
  /\ last.op = "initialize"
  /\ homeMounted
  /\ ValidStored(last.preStorage)
  /\ last.preLoading
  /\ homePush = "/admin/dashboard"

(* ------------------------------ the admin views ------------------------ *)

\* the last step settled a load of the dashboard / of the task page
DashboardLoaded == lastLoad.view = "dashboard"
TasksLoaded == lastLoad.view = "tasks"

\* the responses of the settled load, by collection
LoadResponses ==
  IF DashboardLoaded THEN <<lastLoad.users, lastLoad.tasks, lastLoad.forms>>
  ELSE <<lastLoad.users, lastLoad.tasks>>

\* the rows a view shows for a response with data
ShownUsers(resp) ==
  IF DashboardLoaded THEN MapRows(DashboardUser, resp.data.rows)
  ELSE MapRows(PageEmployee, resp.data.rows)
ShownTasks(resp) ==
  IF DashboardLoaded THEN MapRows(DashboardTask, resp.data.rows)
  ELSE MapRows(PageTask, resp.data.rows)
ShownForms(resp) == MapRows(DashboardForm, FormsData(resp.data).rows)

\* the collections of the view whose load settled
LoadedUsers == IF DashboardLoaded THEN adminDashboard.employees ELSE adminTasksPage.employees
LoadedTasks == IF DashboardLoaded THEN adminDashboard.allTasks ELSE adminTasksPage.tasks

\* one request of the settled load rejected and all the others brought data
OneRejected ==
  /\ DashboardLoaded \/ TasksLoaded
  /\ Cardinality({i \in DOMAIN LoadResponses : LoadResponses[i].kind = "reject"}) = 1
  /\ \A i \in DOMAIN LoadResponses :
       LoadResponses[i].kind # "reject" => HasData(LoadResponses[i])

\* C14: when one of a view's parallel requests rejects and the others succeed,
\* the collections of the successful requests are populated from their
\* responses and only the rejected request's collection is empty
C14_RejectionKeepsOthers ==
  OneRejected =>
    /\ LoadedUsers = IF HasData(lastLoad.users) THEN ShownUsers(lastLoad.users) ELSE <<>>
    /\ LoadedTasks = IF HasData(lastLoad.tasks) THEN ShownTasks(lastLoad.tasks) ELSE <<>>
    /\ DashboardLoaded =>
         adminDashboard.forms =
           IF HasData(lastLoad.forms) THEN ShownForms(lastLoad.forms) ELSE <<>>

\* no request of the settled load rejected
NoneRejected ==
  /\ DashboardLoaded \/ TasksLoaded
  /\ \A i \in DOMAIN LoadResponses : LoadResponses[i].kind = "resolve"

\* C15: when a request of a view completes with a failure response (success
\* false, or no data), its collection is empty after the load, also when it
\* held data before; the other collections are populated from their responses
\* and the view is not left loading
C15_FailureResponseEmpties ==
  NoneRejected =>
    /\ ~HasData(lastLoad.users) => LoadedUsers = <<>>
    /\ ~HasData(lastLoad.tasks) => LoadedTasks = <<>>
    /\ (DashboardLoaded /\ ~HasData(lastLoad.forms)) => adminDashboard.forms = <<>>
    /\ HasData(lastLoad.users) => LoadedUsers = ShownUsers(lastLoad.users)
    /\ HasData(lastLoad.tasks) => LoadedTasks = ShownTasks(lastLoad.tasks)
    /\ DashboardLoaded => adminDashboard.pending > 0 \/ ~adminDashboard.loading
    /\ TasksLoaded => adminTasksPage.pending > 0 \/ ~adminTasksPage.loading

\* no task of the dashboard is assigned to the employee
NoMatchingTasks(emp) ==
  \A i \in 1..Len(adminDashboard.allTasks) :
    adminDashboard.allTasks[i].userId # Str(emp.id)

\* the employees of the dashboard without a matching task
Unassigned ==
  {i \in 1..Len(adminDashboard.employees) : NoMatchingTasks(adminDashboard.employees[i])}

C21_RequestsOnlyByAdmin ==
  [][ /\ loadsIssued' > loadsIssued => IsAdmin
      /\ taskForm'.creating > taskForm.creating => IsAdmin ]_vars

\* a step of the modal
FormStepped == <<taskForm, lastForm>>' # <<taskForm, lastForm>>

\* no id occurs twice in a selection
NoDuplicates(assignedTo) == Cardinality(Selected(assignedTo)) = Len(assignedTo)

\* C22: assignedTo never holds an id twice; Select All adds exactly the listed
\* employees that are not yet selected, Deselect All removes exactly the listed
\* employees, and both leave the selection of the employees not listed as it was
C22_SelectionSteps ==
  [][ LET before == taskForm.formData.assignedTo
          after == taskForm'.formData.assignedTo
          listed == Ids(displayedEmployees)
      IN /\ NoDuplicates(after)
         /\ (FormStepped /\ lastForm'.op = "selectAll") =>
              /\ Selected(after) = Selected(before) \cup listed
              /\ SubSeq(after, 1, Len(before)) = before
         /\ (FormStepped /\ lastForm'.op = "deselectAll") =>
              /\ listed \subseteq Selected(before)
              /\ Selected(after) = Selected(before) \ listed
         /\ (FormStepped /\ lastForm'.op \in {"selectAll", "deselectAll"}) =>
              Selected(after) \ listed = Selected(before) \ listed ]_vars

\* Select All has added the five listed employees to a selection that held the
\* sixth, which is not listed
C22_Witness ==
  /\ lastForm.op = "selectAll"
  /\ ~taskForm.showAllEmployees
  /\ taskForm.searchTerm = ""
  /\ Len(taskForm.formData.assignedTo) = DisplayLimit + 1
  /\ taskForm.formData.assignedTo[1] = "m6"

\* the createTask response is a success
CreateSucceeded(response) == response.kind = "resolve" /\ response.success

\* C23: when handleCreateTask gets a success it closes the modal, resets form,
\* search term and show-all flag and reloads tasks and employees; when it gets
\* a failure or the call throws, modal and form stay as they are and nothing is
\* reloaded
C23_CreateTaskSettles ==
  [][ taskForm'.creating < taskForm.creating =>
        IF CreateSucceeded(lastForm'.response)
        THEN /\ ~taskForm'.isCreateModalOpen
             /\ taskForm'.formData = EmptyForm
             /\ taskForm'.searchTerm = ""
             /\ ~taskForm'.showAllEmployees
             /\ loadsIssued' = loadsIssued + 1
             /\ adminTasksPage'.loading
             /\ adminTasksPage'.pending = adminTasksPage.pending + 1
        ELSE /\ taskForm'.isCreateModalOpen = taskForm.isCreateModalOpen
             /\ taskForm'.formData = taskForm.formData
             /\ taskForm'.searchTerm = taskForm.searchTerm
             /\ taskForm'.showAllEmployees = taskForm.showAllEmployees
             /\ UNCHANGED <<loadsIssued, adminTasksPage>> ]_vars

\* a created task has closed the modal and a reload is in flight
C23_Witness ==
  /\ lastForm.op = "create"
  /\ CreateSucceeded(lastForm.response)
  /\ ~taskForm.isCreateModalOpen
  /\ taskForm.formData = EmptyForm
  /\ adminTasksPage.pending > 0

====
